---------------------------- MODULE Spec2Model ----------------------------
(***************************************************************************)
(* Hip Replacement Pain Predictor (src/app.py).                            *)
(*                                                                         *)
(* Numbers are fixed point.  A feature value v of the program is held as   *)
(* the integer 10*v (tenths), a score s as the integer 10000*s: the        *)
(* coefficients of the demo formula are multiples of 0.001, so every       *)
(* product coefficient*value is an integer of 1/10000 and the arithmetic   *)
(* of the model is exact.  Floating point rounding is not modelled.        *)
(*                                                                         *)
(* A timepoint string is a sequence of one-character strings, so that      *)
(* str.upper() and str.lower() are computed and not assumed.               *)
(***************************************************************************)
EXTENDS Integers, Sequences, FiniteSets, TLC

(***************************************************************************)
(* Bounds of the model.                                                    *)
(***************************************************************************)
\* at most this many keys are dropped from a full record to build an input
MaxMissing == 2
\* raw outputs of the trained model range, in steps of 0.5, from
\* -NegRawHalves/2 to MaxRawHalves/2
MaxRawHalves == 17
NegRawHalves == 2

(***************************************************************************)
(* Fixed point.                                                            *)
(***************************************************************************)
\* the score 1.0; a value held in tenths times a coefficient held in
\* thousandths is a score in these units
Unit == 10 * 1000

(***************************************************************************)
(* Constants of the program.                                               *)
(***************************************************************************)
T3_IMPORTANT_FEATURES ==
    << "LOS", "BMI_Current", "WOMACP_5", "WeightCurrent", "ICOAPC_3",
       "ICOAPC_1", "AgePreOp", "WOMACP_3", "WalkPain", "MobilityAidWalker",
       "Pre-Op Pain", "HeightCurrent", "ResultsRelief" >>

T5_IMPORTANT_FEATURES ==
    << "AgePreOp", "BMI_Current", "WeightCurrent", "HeightCurrent", "LOS",
       "WOMACP_5", "ResultsRelief", "ICOAPC_3", "Pre-Op Pain", "WalkPain",
       "Approach", "HeadSize" >>

Range(s) == {s[i] : i \in DOMAIN s}

\* the keys of get_feature_descriptions(): every feature of either list
AllFeatures == Range(T3_IMPORTANT_FEATURES) \cup Range(T5_IMPORTANT_FEATURES)

T3 == << "T", "3" >>
T5 == << "T", "5" >>

\* str.upper() and str.lower() on the characters the inputs are made of
UpperChar(c) == CASE c = "t" -> "T" [] OTHER -> c
LowerChar(c) == CASE c = "T" -> "t" [] OTHER -> c
Upper(s) == [i \in DOMAIN s |-> UpperChar(s[i])]
Lower(s) == [i \in DOMAIN s |-> LowerChar(s[i])]

(***************************************************************************)
(* The artifact files.  A path os.path.join(MODELS_DIR, stem_kind.joblib)  *)
(* is the record of its stem and its kind.                                 *)
(***************************************************************************)
ModelPath(timepoint) == [stem |-> Lower(timepoint), kind |-> "model"]
PreprocessorPath(timepoint) == [stem |-> Lower(timepoint), kind |-> "preprocessor"]

\* the list model_files of check_models_exist
ModelFiles ==
    { [stem |-> << "t", "3" >>, kind |-> "model"],
      [stem |-> << "t", "3" >>, kind |-> "preprocessor"],
      [stem |-> << "t", "5" >>, kind |-> "model"],
      [stem |-> << "t", "5" >>, kind |-> "preprocessor"] }

(***************************************************************************)
(* Records and results.                                                    *)
(*                                                                         *)
(* A patient record (a dict) is a function from the keys it holds to their *)
(* values: numbers in tenths, Approach a string, HeadSize a record of its  *)
(* Python type and its text (28 and "28" differ in type only).             *)
(*                                                                         *)
(* What a call gives back is a record: raised = "" and the value returned, *)
(* or the exception raised; raw is the local prediction before it is       *)
(* clamped, data the caller's dict as the call leaves it, df the DataFrame *)
(* the call built (NoFrame when it built none).                            *)
(***************************************************************************)
NoFrame == [f \in {} |-> 0]

Return(v, raw, data, df) ==
    [raised |-> "", msg |-> "", missing |-> << >>, value |-> v, raw |-> raw,
     data |-> data, df |-> df]

Raise(exc, msg, missing, data, df) ==
    [raised |-> exc, msg |-> msg, missing |-> missing, value |-> 0, raw |-> 0,
     data |-> data, df |-> df]

\* dict.get with the default written as 0
GetZeroDefault(d, key, default) == IF key \in DOMAIN d THEN d[key] ELSE 0

\* dict.get(key, default)
Get(d, key, default) == IF key \in DOMAIN d THEN d[key] ELSE default

\* the builtins min(a, b) and max(a, b)
Min2(a, b) == IF b < a THEN b ELSE a
Max2(a, b) == IF b > a THEN b ELSE a

\* a clip that bounds the score from below only
ClipLowerOnly(x, lo, hi) == IF x < lo THEN lo ELSE x

\* np.clip(x, lo, hi)
Clip(x, lo, hi) == IF x < lo THEN lo ELSE IF x > hi THEN hi ELSE x

\* Series.astype(str) on the HeadSize column
AsTypeStr(v) == [v EXCEPT !.type = "str"]

(***************************************************************************)
(* load_models(timepoint), lines 58-73.  lib.load_ok says whether          *)
(* joblib.load reads the two files without raising.                        *)
(***************************************************************************)
ArtifactsExist(timepoint, files) ==
    ModelPath(timepoint) \in files /\ PreprocessorPath(timepoint) \in files

load_models(timepoint, files, lib) ==
    IF ~ArtifactsExist(timepoint, files)
    THEN [raised |-> "FileNotFoundError", msg |-> "Pre-trained models not found"]
    ELSE IF ~lib.load_ok
    THEN [raised |-> "Exception", msg |-> "joblib.load failed"]
    ELSE [raised |-> "", msg |-> ""]

(***************************************************************************)
(* predict_with_model(patient_data, timepoint), lines 75-123.  lib holds   *)
(* what the trained artifacts do: whether preprocessor.transform and       *)
(* model.predict raise, and the raw score model.predict returns.           *)
(***************************************************************************)
RequiredFeatures(timepoint) ==
    IF timepoint = T3 THEN T3_IMPORTANT_FEATURES ELSE T5_IMPORTANT_FEATURES

\* a check that stops at the first absent feature
MissingFirstOnly(patient_data, required_features) ==
    LET absent == SelectSeq(required_features,
                            LAMBDA f : f \notin DOMAIN patient_data)
    IN  IF absent = << >> THEN << >> ELSE << absent[1] >>

MissingFeatures(patient_data, required_features) ==
    SelectSeq(required_features, LAMBDA f : f \notin DOMAIN patient_data)

\* pd.DataFrame([patient_data]) with the HeadSize column converted to str
PatientFrame(patient_data) ==
    [f \in DOMAIN patient_data |->
        IF f = "HeadSize" THEN AsTypeStr(patient_data[f]) ELSE patient_data[f]]

\* the conversion written into the caller's dict
RecordCoercedInPlace(patient_data) == PatientFrame(patient_data)

\* the caller's dict once the DataFrame is built and its column converted:
\* pd.DataFrame copies the values, the dict is as it was
RecordAfterFrame(patient_data) == patient_data

predict_with_model(patient_data, timepoint0, files, lib) ==
    LET timepoint == Upper(timepoint0)
        loaded == load_models(timepoint, files, lib)
        missing_features ==
            MissingFeatures(patient_data, RequiredFeatures(timepoint))
        patient_df == PatientFrame(patient_data)
    IN  IF timepoint \notin {T3, T5}
        THEN Raise("ValueError", "Timepoint must be 'T3' or 'T5'", << >>,
                   patient_data, NoFrame)
        ELSE IF loaded.raised # ""
        THEN Raise(loaded.raised, loaded.msg, << >>, patient_data, NoFrame)
        ELSE IF missing_features # << >>
        THEN Raise("ValueError", "Missing required features",
                   missing_features, patient_data, NoFrame)
        ELSE IF ~lib.transform_ok
        THEN Raise("Exception", "preprocessor.transform failed", << >>,
                   RecordAfterFrame(patient_data), patient_df)
        ELSE IF ~lib.predict_ok
        THEN Raise("Exception", "model.predict failed", << >>,
                   RecordAfterFrame(patient_data), patient_df)
        ELSE Return(Clip(lib.raw, 0, 8 * Unit), lib.raw,
                    RecordAfterFrame(patient_data), patient_df)

(***************************************************************************)
(* predict_in_demo_mode(patient_data, timepoint), lines 125-147.           *)
(***************************************************************************)
\* the local prediction of lines 135 and 144, before it is clamped
DemoFormula(patient_data, timepoint) ==
    IF timepoint = T3
    THEN LET bmi_factor == 10 * Get(patient_data, "BMI_Current", 250)
             age_factor == 10 * Get(patient_data, "AgePreOp", 650)
             preop_factor == 200 * Get(patient_data, "Pre-Op Pain", 50)
             walk_factor == 100 * Get(patient_data, "WalkPain", 50)
         IN  2 * Unit + bmi_factor + age_factor + preop_factor - walk_factor
    ELSE LET bmi_factor == 8 * Get(patient_data, "BMI_Current", 250)
             age_factor == 5 * Get(patient_data, "AgePreOp", 650)
             preop_factor == 150 * Get(patient_data, "Pre-Op Pain", 50)
             approach_factor ==
                 IF "Approach" \in DOMAIN patient_data
                    /\ patient_data["Approach"] = "Posterior"
                 THEN Unit \div 2 ELSE 0
         IN  (3 * Unit) \div 2 + bmi_factor + age_factor + preop_factor
                 - approach_factor

predict_in_demo_mode(patient_data, timepoint) ==
    Max2(0, Min2(8 * Unit, DemoFormula(patient_data, timepoint)))

(***************************************************************************)
(* check_models_exist(), lines 149-158, and the demo mode decision of      *)
(* main, lines 171-179.                                                    *)
(***************************************************************************)
check_models_exist(files) == \A f \in ModelFiles : f \in files

\* a decision that looks at the directory and not at the files in it
UseDemoModeDirOnly(dir_exists, files) == ~dir_exists

UseDemoMode(dir_exists, files) ==
    IF ~dir_exists THEN TRUE ELSE ~check_models_exist(files)

(***************************************************************************)
(* The interpretation of a score, main lines 305-317.                      *)
(***************************************************************************)
\* the bands with their upper boundaries excluded
InterpretationStrict(prediction) ==
    IF prediction < 2 * Unit THEN "minimal"
    ELSE IF prediction < 4 * Unit THEN "mild"
    ELSE IF prediction < 6 * Unit THEN "moderate"
    ELSE "severe"

Interpretation(prediction) ==
    IF prediction <= 2 * Unit THEN "minimal"
    ELSE IF prediction <= 4 * Unit THEN "mild"
    ELSE IF prediction <= 6 * Unit THEN "moderate"
    ELSE "severe"

(***************************************************************************)
(* Inputs.                                                                 *)
(***************************************************************************)
\* a record holding every feature; the features no formula reads are 0
\* (ResultsRelief, a slider from 1, is 1)
FullRecord(bmi, age, preop, walk, approach, headsize) ==
    [f \in AllFeatures |->
        CASE f = "BMI_Current" -> bmi
          [] f = "AgePreOp" -> age
          [] f = "Pre-Op Pain" -> preop
          [] f = "WalkPain" -> walk
          [] f = "Approach" -> approach
          [] f = "HeadSize" -> headsize
          [] f = "ResultsRelief" -> 10
          [] OTHER -> 0]

Drop(record, keys) == [f \in DOMAIN record \ keys |-> record[f]]

SubsetsUpTo(S, n) == {D \in SUBSET S : Cardinality(D) <= n}

\* the options of the HeadSize selectbox are strings; a caller of
\* predict_with_model may hold the size as a number
HeadStr28 == [type |-> "str", text |-> "28"]
HeadStrOther == [type |-> "str", text |-> "Other"]
HeadInt28 == [type |-> "int", text |-> "28"]

\* the defaults of predict_in_demo_mode as a record, and a record whose
\* HeadSize is a number
DefaultsRecord == FullRecord(250, 650, 50, 50, "Posterior", HeadStr28)
NumericHeadRecord == FullRecord(273, 581, 70, 30, "Lateral", HeadInt28)

\* records that differ in the keys they hold: up to MaxMissing keys dropped
\* from a full record, and the empty record
PresenceRecords ==
    {Drop(r, D) : r \in {DefaultsRecord, NumericHeadRecord},
                  D \in SubsetsUpTo(AllFeatures, MaxMissing)}
        \cup {Drop(DefaultsRecord, AllFeatures)}

\* records that differ in the values the demo formulas read, each of the
\* five keys present (a one-element tuple) or absent (the empty tuple)
Optional(S) == {<< >>} \cup {<< v >> : v \in S}
ValueOr(o, default) == IF o = << >> THEN default ELSE o[1]
KeyIfAbsent(o, key) == IF o = << >> THEN {key} ELSE {}

ValueRecords ==
    {Drop(FullRecord(ValueOr(bmi, 0), ValueOr(age, 0), ValueOr(preop, 0),
                     ValueOr(walk, 0), ValueOr(approach, ""), HeadStrOther),
          KeyIfAbsent(bmi, "BMI_Current") \cup KeyIfAbsent(age, "AgePreOp")
              \cup KeyIfAbsent(preop, "Pre-Op Pain")
              \cup KeyIfAbsent(walk, "WalkPain")
              \cup KeyIfAbsent(approach, "Approach")) :
        bmi \in Optional({-3000, 0, 250, 9000}),
        age \in Optional({0, 650}),
        preop \in Optional({0, 50, 100}),
        walk \in Optional({0, 50, 100}),
        approach \in Optional({"Posterior", "Anterior"})}

RecordInputs == PresenceRecords \cup ValueRecords

\* the timepoint strings given to the predictors
TimepointInputs == {T3, T5, << "t", "3" >>, << "T", "9" >>}

\* the states of the models directory given to the predictors: every file
\* present, one file absent, no file at all
FilesInputs ==
    {ModelFiles, {}} \cup {ModelFiles \ {f} : f \in ModelFiles}

\* what the form of main hands over for a timepoint: one value per required
\* feature, the categorical ones among the options of their selectbox
FormRecords(timepoint_code) ==
    {Drop(FullRecord(bmi, 650, preop, 50, approach, HeadStr28),
          AllFeatures \ Range(RequiredFeatures(timepoint_code))) :
        bmi \in {-3000, 0, 250, 9000}, preop \in {0, 100},
        approach \in {"Posterior", "Anterior"}}

\* what the trained artifacts may do when used
RawOutputs == {k * (Unit \div 2) : k \in -NegRawHalves .. MaxRawHalves}

LibOutcomes ==
    {[load_ok |-> FALSE, transform_ok |-> TRUE, predict_ok |-> TRUE, raw |-> 0],
     [load_ok |-> TRUE, transform_ok |-> FALSE, predict_ok |-> TRUE, raw |-> 0],
     [load_ok |-> TRUE, transform_ok |-> TRUE, predict_ok |-> FALSE, raw |-> 0]}
        \cup {[load_ok |-> TRUE, transform_ok |-> TRUE, predict_ok |-> TRUE,
               raw |-> r] : r \in RawOutputs}

(***************************************************************************)
(* State.                                                                  *)
(*                                                                         *)
(* models_dir, files: the filesystem (whether MODELS_DIR exists, and which *)
(* artifact files exist in it).  The other variables are those of one run  *)
(* of the script: pc its position, checked what lines 171-179 saw on disk, *)
(* called the predictors invoked, ret what the call of a predictor gave,   *)
(* has_prediction whether prediction is bound, demo_info whether the       *)
(* "Using demo mode" st.info was shown, warning the str(e) of the          *)
(* st.warning of line 268, interpretation the label of lines 305-317.      *)
(***************************************************************************)
VARIABLES models_dir, files, pc, checked, use_demo_mode, timepoint_code,
          patient_data, called, ret, has_prediction, prediction, demo_info,
          warning, interpretation

vars == << models_dir, files, pc, checked, use_demo_mode, timepoint_code,
           patient_data, called, ret, has_prediction, prediction, demo_info,
           warning, interpretation >>

NoResult == Raise("none", "", << >>, NoFrame, NoFrame)
NotChecked == [dir |-> FALSE, files |-> {}, done |-> FALSE]

\* a directory that does not exist holds no file
FilesystemStates ==
    {fs \in [dir : BOOLEAN, files : SUBSET ModelFiles] :
        fs.files # {} => fs.dir}

\* the locals of a run of the script before its first statement
FreshRun ==
    /\ checked = NotChecked
    /\ use_demo_mode = FALSE
    /\ timepoint_code = T3
    /\ patient_data = NoFrame
    /\ called = {}
    /\ ret = NoResult
    /\ has_prediction = FALSE
    /\ prediction = 0
    /\ demo_info = FALSE
    /\ warning = ""
    /\ interpretation = ""

Init ==
    /\ \E fs \in FilesystemStates : models_dir = fs.dir /\ files = fs.files
    /\ pc = "start"
    /\ FreshRun

(***************************************************************************)
(* The filesystem changes under the program: files and the directory are   *)
(* created and removed by whoever trains or deploys the models.            *)
(***************************************************************************)
EnvChange ==
    /\ \/ \E f \in ModelFiles \ files :          \* a file is written
             models_dir /\ files' = files \cup {f} /\ models_dir' = models_dir
       \/ \E f \in files :                        \* a file is removed
             files' = files \ {f} /\ models_dir' = models_dir
       \/ files = {} /\ models_dir' = ~models_dir /\ files' = files
    /\ UNCHANGED << pc, checked, use_demo_mode, timepoint_code, patient_data,
                    called, ret, has_prediction, prediction, demo_info,
                    warning, interpretation >>

(***************************************************************************)
(* main, lines 171-179: the demo mode decision.                            *)
(***************************************************************************)
Check ==
    /\ pc = "start"
    /\ use_demo_mode' = UseDemoMode(models_dir, files)
    /\ checked' = [dir |-> models_dir, files |-> files, done |-> TRUE]
    /\ pc' = "form"
    /\ UNCHANGED << models_dir, files, timepoint_code, patient_data, called,
                    ret, has_prediction, prediction, demo_info, warning,
                    interpretation >>

(***************************************************************************)
(* main, lines 181-258: the radio gives the timepoint, the form one value  *)
(* per required feature, and the button is pressed.                        *)
(***************************************************************************)
Submit ==
    /\ pc = "form"
    /\ \E code \in {T3, T5} : \E record \in FormRecords(code) :
          /\ timepoint_code' = code
          /\ patient_data' = record
    /\ pc' = "predict"
    /\ UNCHANGED << models_dir, files, checked, use_demo_mode, called, ret,
                    has_prediction, prediction, demo_info, warning,
                    interpretation >>

(***************************************************************************)
(* main, lines 259-270: the choice of the predictor.  What the step gives: *)
(* the prediction (when has_prediction), the notices shown, the predictors *)
(* called, what predict_with_model gave, and error, the exception that     *)
(* leaves the inner try for the handler of line 326 ("" when none does).   *)
(***************************************************************************)
\* a fallback that shows the warning and not the demo notice
PredictStepNoNotice(demo_mode, data, timepoint, fls, lib) ==
    IF demo_mode
    THEN [has_prediction |-> TRUE,
          prediction |-> predict_in_demo_mode(data, timepoint),
          demo_info |-> TRUE, warning |-> "", error |-> "",
          called |-> {"predict_in_demo_mode"}, ret |-> NoResult,
          data |-> data]
    ELSE LET r == predict_with_model(data, timepoint, fls, lib)
         IN  IF r.raised = ""
             THEN [has_prediction |-> TRUE, prediction |-> r.value,
                   demo_info |-> FALSE, warning |-> "", error |-> "",
                   called |-> {"predict_with_model"}, ret |-> r,
                   data |-> r.data]
             ELSE [has_prediction |-> TRUE,
                   prediction |-> predict_in_demo_mode(r.data, timepoint),
                   demo_info |-> FALSE, warning |-> r.msg, error |-> "",
                   called |-> {"predict_with_model", "predict_in_demo_mode"},
                   ret |-> r, data |-> r.data]

\* an inner handler that catches ValueError and FileNotFoundError only
PredictStepNarrowExcept(demo_mode, data, timepoint, fls, lib) ==
    IF demo_mode
    THEN [has_prediction |-> TRUE,
          prediction |-> predict_in_demo_mode(data, timepoint),
          demo_info |-> TRUE, warning |-> "", error |-> "",
          called |-> {"predict_in_demo_mode"}, ret |-> NoResult,
          data |-> data]
    ELSE LET r == predict_with_model(data, timepoint, fls, lib)
         IN  IF r.raised = ""
             THEN [has_prediction |-> TRUE, prediction |-> r.value,
                   demo_info |-> FALSE, warning |-> "", error |-> "",
                   called |-> {"predict_with_model"}, ret |-> r,
                   data |-> r.data]
             ELSE IF r.raised \in {"ValueError", "FileNotFoundError"}
             THEN [has_prediction |-> TRUE,
                   prediction |-> predict_in_demo_mode(r.data, timepoint),
                   demo_info |-> TRUE, warning |-> r.msg, error |-> "",
                   called |-> {"predict_with_model", "predict_in_demo_mode"},
                   ret |-> r, data |-> r.data]
             ELSE [has_prediction |-> FALSE, prediction |-> 0,
                   demo_info |-> FALSE, warning |-> "", error |-> r.msg,
                   called |-> {"predict_with_model"}, ret |-> r,
                   data |-> r.data]

PredictStep(demo_mode, data, timepoint, fls, lib) ==
    IF demo_mode
    THEN [has_prediction |-> TRUE,
          prediction |-> predict_in_demo_mode(data, timepoint),
          demo_info |-> TRUE, warning |-> "", error |-> "",
          called |-> {"predict_in_demo_mode"}, ret |-> NoResult,
          data |-> data]
    ELSE LET r == predict_with_model(data, timepoint, fls, lib)
         IN  IF r.raised = ""
             THEN [has_prediction |-> TRUE, prediction |-> r.value,
                   demo_info |-> FALSE, warning |-> "", error |-> "",
                   called |-> {"predict_with_model"}, ret |-> r,
                   data |-> r.data]
             ELSE [has_prediction |-> TRUE,
                   prediction |-> predict_in_demo_mode(r.data, timepoint),
                   demo_info |-> TRUE, warning |-> r.msg, error |-> "",
                   called |-> {"predict_with_model", "predict_in_demo_mode"},
                   ret |-> r, data |-> r.data]

Predict ==
    /\ pc = "predict"
    /\ \E lib \in LibOutcomes :
          LET out == PredictStep(use_demo_mode, patient_data, timepoint_code,
                                 files, lib)
          IN  /\ has_prediction' = out.has_prediction
              /\ prediction' = out.prediction
              /\ demo_info' = out.demo_info
              /\ warning' = out.warning
              /\ called' = out.called
              /\ ret' = out.ret
              /\ patient_data' = out.data
              /\ pc' = IF out.error = "" THEN "render" ELSE "error"
    /\ UNCHANGED << models_dir, files, checked, use_demo_mode, timepoint_code,
                    interpretation >>

(***************************************************************************)
(* main, lines 272-327: the gauge and the interpretation.  The plotting    *)
(* calls are library code that may raise; the handler of line 326 then     *)
(* shows st.error and the label is never computed.                         *)
(***************************************************************************)
Render ==
    /\ pc = "render"
    /\ \E plot_ok \in BOOLEAN :
          IF plot_ok
          THEN /\ interpretation' = Interpretation(prediction)
               /\ pc' = "done"
          ELSE /\ interpretation' = interpretation
               /\ pc' = "error"
    /\ UNCHANGED << models_dir, files, checked, use_demo_mode, timepoint_code,
                    patient_data, called, ret, has_prediction, prediction,
                    demo_info, warning >>

(***************************************************************************)
(* Streamlit runs the script again from the top on the next interaction:   *)
(* nothing of a run is kept.                                               *)
(***************************************************************************)
Rerun ==
    /\ pc \in {"form", "done", "error"}
    /\ pc' = "start"
    /\ checked' = NotChecked
    /\ use_demo_mode' = FALSE
    /\ timepoint_code' = T3
    /\ patient_data' = NoFrame
    /\ called' = {}
    /\ ret' = NoResult
    /\ has_prediction' = FALSE
    /\ prediction' = 0
    /\ demo_info' = FALSE
    /\ warning' = ""
    /\ interpretation' = ""
    /\ UNCHANGED << models_dir, files >>

Next == EnvChange \/ Check \/ Submit \/ Predict \/ Render \/ Rerun

Spec == Init /\ [][Next]_vars

\* a run of the script is one thread that runs to its end
FairSpec == Spec /\ WF_vars(Check) /\ WF_vars(Predict) /\ WF_vars(Render)

(***************************************************************************)
(* The predictors called directly, on any record, timepoint string and     *)
(* state of the models directory.                                          *)
(***************************************************************************)
FnInit ==
    /\ files \in FilesInputs
    /\ models_dir = TRUE
    /\ timepoint_code \in TimepointInputs
    /\ patient_data \in RecordInputs
    /\ pc = "call"
    /\ checked = NotChecked
    /\ use_demo_mode = FALSE
    /\ called = {}
    /\ ret = NoResult
    /\ has_prediction = FALSE
    /\ prediction = 0
    /\ demo_info = FALSE
    /\ warning = ""
    /\ interpretation = ""

CallPredictWithModel ==
    /\ pc = "call"
    /\ \E lib \in LibOutcomes :
          LET r == predict_with_model(patient_data, timepoint_code, files, lib)
          IN  /\ ret' = r
              /\ patient_data' = r.data
              /\ has_prediction' = (r.raised = "")
              /\ prediction' = r.value
    /\ called' = {"predict_with_model"}
    /\ pc' = "returned"
    /\ UNCHANGED << models_dir, files, checked, use_demo_mode, timepoint_code,
                    demo_info, warning, interpretation >>

CallPredictInDemoMode ==
    /\ pc = "call"
    /\ ret' = Return(predict_in_demo_mode(patient_data, timepoint_code),
                     DemoFormula(patient_data, timepoint_code),
                     patient_data, NoFrame)
    /\ has_prediction' = TRUE
    /\ prediction' = ret'.value
    /\ called' = {"predict_in_demo_mode"}
    /\ pc' = "returned"
    /\ UNCHANGED << models_dir, files, checked, use_demo_mode, timepoint_code,
                    patient_data, demo_info, warning, interpretation >>

FnNext == CallPredictWithModel \/ CallPredictInDemoMode

FnSpec == FnInit /\ [][FnNext]_vars

(***************************************************************************)
(* Properties.                                                             *)
(***************************************************************************)
Returned(function) == pc = "returned" /\ called = {function}

\* the script has passed lines 259-270
Predicted == pc \in {"render", "done", "error"}

\* lines 171-179 found the directory and each of the four artifact files
AllFoundAtCheck == checked.dir /\ ModelFiles \subseteq checked.files

\* C1: every score a predictor returns lies in [0, 8]: predict_with_model
\* whenever it returns, for every raw output of the model, and
\* predict_in_demo_mode, which returns for every timepoint and record.
C1_ScoreInRange ==
    /\ Returned("predict_in_demo_mode") => ret.raised = ""
    /\ (pc = "returned" /\ ret.raised = "") =>
          (0 <= ret.value /\ ret.value <= 8 * Unit)

\* predict_with_model returned 8 for a raw output above 8
C1_Witness ==
    /\ Returned("predict_with_model")
    /\ ret.raised = ""
    /\ ret.raw > 8 * Unit
    /\ ret.value = 8 * Unit

\* C2: given a timepoint string that is not T3 or T5 (in either letter
\* case), both predictors fail with the invalid-timepoint error and return
\* no score.
C2_InvalidTimepointFails ==
    (pc = "returned" /\ Upper(timepoint_code) \notin {T3, T5}) =>
        /\ ret.raised = "ValueError"
        /\ ret.msg = "Timepoint must be 'T3' or 'T5'"

\* the required keys of the timepoint that the record does not hold
AbsentRequired ==
    Range(RequiredFeatures(Upper(timepoint_code))) \ DOMAIN patient_data

FailsNamingAbsent ==
    /\ ret.raised = "ValueError"
    /\ ret.msg = "Missing required features"
    /\ Range(ret.missing) = AbsentRequired
    /\ Len(ret.missing) = Cardinality(AbsentRequired)

\* C3 as stated: given a record missing one or more features required for
\* the timepoint, predict_with_model fails with the missing-features error
\* whose list names exactly the absent required keys.
C3_MissingFeaturesAlways ==
    (Returned("predict_with_model") /\ timepoint_code \in {T3, T5}
        /\ AbsentRequired # {}) => FailsNamingAbsent

\* C3 amended: the same, provided the two artifact files of the timepoint
\* exist and load (the files are loaded before the record is looked at).
C3_MissingFeaturesWhenLoaded ==
    (Returned("predict_with_model") /\ Upper(timepoint_code) \in {T3, T5}
        /\ ArtifactsExist(Upper(timepoint_code), files)
        /\ ret.msg # "joblib.load failed"
        /\ AbsentRequired # {}) => FailsNamingAbsent

\* two required keys of T5 are absent and both are named
C3_Witness ==
    /\ Returned("predict_with_model")
    /\ timepoint_code = T5
    /\ ret.msg = "Missing required features"
    /\ Len(ret.missing) = 2
    /\ "HeadSize" \in Range(ret.missing)

\* C4: whenever artifact files are absent when the prediction is requested
\* (lines 171-179 do not find the directory and the four files), the
\* model-backed predictor is not invoked, the result is flagged as demo and
\* the score is predict_in_demo_mode(record, timepoint).
C4_AbsentArtifactsDemo ==
    (Predicted /\ ~AllFoundAtCheck) =>
        /\ "predict_with_model" \notin called
        /\ demo_info
        /\ warning = ""
        /\ has_prediction
        /\ prediction = predict_in_demo_mode(patient_data, timepoint_code)

\* a file of the timepoint was absent at the check and is back at the
\* prediction: the demo score is shown all the same
C4_Witness ==
    /\ pc = "done"
    /\ timepoint_code = T5
    /\ ModelPath(T5) \notin checked.files
    /\ files = ModelFiles
    /\ demo_info
    /\ called = {"predict_in_demo_mode"}

\* C5: with the artifacts present the model-backed predictor is attempted
\* first; if it fails, for whatever reason, the score of the heuristic is
\* used, the result is flagged as demo and the reason is shown; if it
\* succeeds, its score is used and no demo flag is raised.
C5_ModelFirstThenFallback ==
    (Predicted /\ AllFoundAtCheck) =>
        /\ "predict_with_model" \in called
        /\ has_prediction
        /\ ret.raised # "" =>
              /\ "predict_in_demo_mode" \in called
              /\ prediction = predict_in_demo_mode(patient_data, timepoint_code)
              /\ demo_info
              /\ warning = ret.msg
              /\ warning # ""
        /\ ret.raised = "" =>
              /\ "predict_in_demo_mode" \notin called
              /\ prediction = ret.value
              /\ ~demo_info
              /\ warning = ""

\* the preprocessor failed and the demo score is shown with the reason
C5_Witness ==
    /\ pc = "done"
    /\ AllFoundAtCheck
    /\ ret.msg = "preprocessor.transform failed"
    /\ demo_info
    /\ warning = "preprocessor.transform failed"

\* C6: there is no fatal error path: every prediction request ends, and it
\* ends with a score produced, whatever the artifact state and whichever
\* failure occurs on the way.
C6_AlwaysAScore ==
    /\ (pc = "predict") ~> (pc \in {"done", "error"})
    /\ [](pc \in {"render", "done", "error"} => has_prediction)

\* the artifacts were found, vanished before they were loaded, and the
\* request ended with a score
C6_Witness ==
    /\ pc = "done"
    /\ ret.raised = "FileNotFoundError"
    /\ has_prediction
    /\ interpretation # ""

\* the record with the defaults of the heuristic in place of absent keys
WithDefaults(record) ==
    [f \in DOMAIN record \cup {"BMI_Current", "AgePreOp", "Pre-Op Pain", "WalkPain"} |->
        IF f \in DOMAIN record THEN record[f]
        ELSE CASE f = "BMI_Current" -> 250
               [] f = "AgePreOp" -> 650
               [] f = "Pre-Op Pain" -> 50
               [] f = "WalkPain" -> 50]

HoldsDefaults(record) ==
    /\ record["BMI_Current"] = 250
    /\ record["AgePreOp"] = 650
    /\ record["Pre-Op Pain"] = 50
    /\ record["WalkPain"] = 50

Clamp08(x) == IF x < 0 THEN 0 ELSE IF x > 8 * Unit THEN 8 * Unit ELSE x

\* the documented closed forms, on a record that holds the four numbers
ClosedFormT3(r) ==
    Clamp08(2 * Unit + 10 * r["BMI_Current"] + 10 * r["AgePreOp"]
                + 200 * r["Pre-Op Pain"] - 100 * r["WalkPain"])

ClosedFormT5(r) ==
    Clamp08(15 * (Unit \div 10) + 8 * r["BMI_Current"] + 5 * r["AgePreOp"]
                + 150 * r["Pre-Op Pain"]
                - (IF "Approach" \in DOMAIN r /\ r["Approach"] = "Posterior"
                   THEN 5 * (Unit \div 10) ELSE 0))

\* a record of exactly the four defaults
ExactDefaults ==
    [f \in {"BMI_Current", "AgePreOp", "Pre-Op Pain", "WalkPain"} |->
        FullRecord(250, 650, 50, 50, "", HeadStr28)[f]]

\* C7: predict_in_demo_mode is the documented closed form with absent keys
\* replaced by their defaults; the T3 score of the defaults is 3.4, the T5
\* score of the defaults with Approach 'Posterior' is 2.275, and the empty
\* record scores as the record of exactly the defaults.
C7_DemoClosedForm ==
    Returned("predict_in_demo_mode") =>
        LET r == WithDefaults(patient_data)
        IN  /\ timepoint_code = T3 => ret.value = ClosedFormT3(r)
            /\ timepoint_code = T5 => ret.value = ClosedFormT5(r)
            /\ (timepoint_code = T3 /\ HoldsDefaults(r)) =>
                  ret.value = 34 * (Unit \div 10)
            /\ (timepoint_code = T5 /\ HoldsDefaults(r)
                  /\ "Approach" \in DOMAIN r /\ r["Approach"] = "Posterior") =>
                  ret.value = 2275 * (Unit \div 1000)
            /\ DOMAIN patient_data = {} =>
                  ret.value = predict_in_demo_mode(ExactDefaults, timepoint_code)

\* the T3 score of the empty record is 3.4
C7_Witness ==
    /\ Returned("predict_in_demo_mode")
    /\ timepoint_code = T3
    /\ DOMAIN patient_data = {}
    /\ ret.value = 34 * (Unit \div 10)

\* C8: a request at a timepoint whose own two artifact files are present is
\* not served in demo mode because of the other timepoint's files.
C8_OwnFilesDecide ==
    (pc = "predict" /\ checked.dir
        /\ ArtifactsExist(timepoint_code, checked.files)) => ~use_demo_mode

\* C9: the interpretation is a total function of the score with inclusive
\* upper boundaries: minimal up to 2, mild above 2 up to 4, moderate above
\* 4 up to 6, severe above 6.
C9_InterpretationBands ==
    pc = "done" =>
        /\ interpretation \in {"minimal", "mild", "moderate", "severe"}
        /\ interpretation = "minimal" <=> prediction <= 2 * Unit
        /\ interpretation = "mild" <=>
              (2 * Unit < prediction /\ prediction <= 4 * Unit)
        /\ interpretation = "moderate" <=>
              (4 * Unit < prediction /\ prediction <= 6 * Unit)
        /\ interpretation = "severe" <=> prediction > 6 * Unit

\* the model's score of exactly 6 is shown as moderate
C9_Witness ==
    /\ pc = "done"
    /\ called = {"predict_with_model"}
    /\ prediction = 6 * Unit
    /\ interpretation = "moderate"

\* C10: predict_with_model leaves the caller's record as it was, whether it
\* returns or raises.
C10_RecordUnchanged ==
    [][called' = {"predict_with_model"} => patient_data' = patient_data]_vars

\* the DataFrame holds the size as text, the record still as a number
C10_Witness ==
    /\ Returned("predict_with_model")
    /\ "HeadSize" \in DOMAIN ret.df
    /\ ret.df["HeadSize"].type = "str"
    /\ patient_data["HeadSize"].type = "int"

=============================================================================
